---- MODULE Spec2Model ----
(***************************************************************************)
(* Model of src/utils/validate_data.py: validate_telco_data(df).           *)
(* One call of the validator is a linear pass over the check blocks of the *)
(* function; every block is one action.  A cell of the data frame is a     *)
(* tagged value (string | number | null); strings are sequences of         *)
(* one-character strings so that numeric parsing is computed, not assumed. *)
(* Numbers are integers (charges in whole currency units).                 *)
(***************************************************************************)
EXTENDS Integers, Sequences, FiniteSets, TLC

VARIABLES columns, df, pc, failures, tc_numeric, notice, is_valid, returned

vars == <<columns, df, pc, failures, tc_numeric, notice, is_valid, returned>>

(* ------------------------------ bounds -------------------------------- *)
MaxRows == 2
MaxRowsMissing == 1
MaxTotal == 100
MaxViolations == 6
MaxIdRows == 5

(* ------------------------------ values -------------------------------- *)
Null == [t |-> "null", n |-> 0, s |-> <<>>]
NaN == Null
Num(k) == [t |-> "num", n |-> k, s |-> <<>>]
Str(x) == [t |-> "str", n |-> 0, s |-> x]

isna(v) == v.t = "null"
notna(v) == v.t # "null"

Digits == {"0", "1", "2", "3", "4", "5", "6", "7", "8", "9"}

DigitVal(c) ==
    CASE c = "0" -> 0 [] c = "1" -> 1 [] c = "2" -> 2 [] c = "3" -> 3
      [] c = "4" -> 4 [] c = "5" -> 5 [] c = "6" -> 6 [] c = "7" -> 7
      [] c = "8" -> 8 [] c = "9" -> 9

RECURSIVE DigitsValue(_)
DigitsValue(s) ==
    IF s = <<>> THEN 0
    ELSE 10 * DigitsValue(SubSeq(s, 1, Len(s) - 1)) + DigitVal(s[Len(s)])

AllDigits(s) == Len(s) > 0 /\ \A i \in 1..Len(s) : s[i] \in Digits

\* The numerals pd.to_numeric accepts, restricted to optionally signed
\* decimal integers; a blank, an empty string or letters do not parse.
IsNumeral(s) ==
    \/ AllDigits(s)
    \/ Len(s) > 1 /\ s[1] = "-" /\ AllDigits(Tail(s))

NumeralValue(s) ==
    IF s[1] = "-" THEN 0 - DigitsValue(Tail(s)) ELSE DigitsValue(s)

\* pd.to_numeric(x, errors="coerce") on one cell
to_numeric(v) ==
    IF v.t = "num" THEN v
    ELSE IF v.t = "str" /\ IsNumeral(v.s) THEN Num(NumeralValue(v.s))
    ELSE NaN

\* elementwise comparisons of a cell with a number: null compares False,
\* equality with a string is False, ordering a string raises TypeError.
EqNum(v, k) == v.t = "num" /\ v.n = k
GtNum(v, k) == v.t = "num" /\ v.n > k
LtNum(v, k) == v.t = "num" /\ v.n < k

(* ------------------------------ schema -------------------------------- *)
required_columns ==
    {"customerID", "gender", "Partner", "Dependents", "PhoneService",
     "InternetService", "Contract", "tenure", "MonthlyCharges",
     "TotalCharges", "Churn"}

key_not_null == <<"customerID", "tenure", "MonthlyCharges">>

S_Male == <<"M", "a", "l", "e">>
S_male == <<"m", "a", "l", "e">>
S_Female == <<"F", "e", "m", "a", "l", "e">>
S_Yes == <<"Y", "e", "s">>
S_No == <<"N", "o">>
S_Maybe == <<"M", "a", "y", "b", "e">>
S_M2M == <<"M", "o", "n", "t", "h", "-", "t", "o", "-", "m", "o", "n", "t", "h">>
S_OneYear == <<"O", "n", "e", " ", "y", "e", "a", "r">>
S_TwoYear == <<"T", "w", "o", " ", "y", "e", "a", "r">>
S_DSL == <<"D", "S", "L">>
S_Fiber == <<"F", "i", "b", "e", "r", " ", "o", "p", "t", "i", "c">>
S_Blank == <<" ">>

value_set_checks ==
    << [col |-> "gender",          allowed |-> {S_Male, S_Female}],
       [col |-> "Partner",         allowed |-> {S_Yes, S_No}],
       [col |-> "Dependents",      allowed |-> {S_Yes, S_No}],
       [col |-> "PhoneService",    allowed |-> {S_Yes, S_No}],
       [col |-> "Contract",        allowed |-> {S_M2M, S_OneYear, S_TwoYear}],
       [col |-> "InternetService", allowed |-> {S_DSL, S_Fiber, S_No}] >>

churn_allowed == {S_Yes, S_No}

(* ------------------------------ messages ------------------------------ *)
Msg(check, col, count) ==
    [check |-> check, col |-> col, count |-> count, total |-> 0,
     vals |-> {}, cols |-> {}]

NoNotice == -1

(* --------------------------- column helpers --------------------------- *)
Rows == 1..Len(df)

Count(P(_)) == Cardinality({i \in Rows : P(i)})

\* _non_null_count: despite its name it counts the nulls of the column
_non_null_count(col) == Count(LAMBDA i : isna(df[i][col]))

HasStr(col) == \E i \in Rows : df[i][col].t = "str"

\* df[col] on a column the frame does not have raises KeyError
KeyError(cols) == ~(cols \subseteq columns)

\* sorted() of a list that mixes strings and numbers raises TypeError
SortRaises(S) == \E x, y \in S : x.t # y.t

\* set(df[col].dropna().unique()) - allowed
BadValues(col, allowed) ==
    {df[i][col] : i \in {j \in Rows : notna(df[j][col])}}
        \ {Str(a) : a \in allowed}

(* ------------------------------ data sets ----------------------------- *)
\* A row that passes every check.
BaseRow ==
    [customerID |-> Str(<<"A">>), gender |-> Str(S_Male), Partner |-> Str(S_Yes),
     Dependents |-> Str(S_No), PhoneService |-> Str(S_Yes),
     InternetService |-> Str(S_DSL), Contract |-> Str(S_M2M),
     tenure |-> Num(1), MonthlyCharges |-> Num(20),
     TotalCharges |-> Str(<<"2", "9">>), Churn |-> Str(S_No)]

\* Rows that vary customerID, tenure and TotalCharges together.
CoreRows ==
    {[BaseRow EXCEPT !["customerID"] = id, !["tenure"] = ten, !["TotalCharges"] = tc] :
        id \in {Str(<<"A">>), Str(<<"B">>)},
        ten \in {Num(1), Num(0), Num(-1), Null},
        tc \in {Str(<<"2", "9">>), Str(S_Blank)}}

\* One cell of the base row replaced.
Deviations ==
    {<<"customerID", Null>>,
     <<"gender", Str(S_male)>>, <<"gender", Num(5)>>, <<"gender", Str(S_Female)>>,
     <<"Partner", Str(S_Maybe)>>, <<"Dependents", Str(S_Maybe)>>,
     <<"PhoneService", Null>>, <<"PhoneService", Str(S_Maybe)>>,
     <<"Contract", Str(S_Maybe)>>, <<"InternetService", Str(S_Maybe)>>,
     <<"tenure", Num(121)>>, <<"tenure", Str(S_Blank)>>,
     <<"MonthlyCharges", Num(-1)>>, <<"MonthlyCharges", Num(201)>>,
     <<"MonthlyCharges", Null>>, <<"MonthlyCharges", Str(S_Blank)>>,
     <<"MonthlyCharges", Num(40)>>,
     <<"TotalCharges", Str(<<"-", "5">>)>>, <<"TotalCharges", Null>>,
     <<"TotalCharges", Str(<<"x">>)>>, <<"TotalCharges", Num(29)>>,
     <<"Churn", Str(S_Maybe)>>, <<"Churn", Num(1)>>}

DeviantRows == {[BaseRow EXCEPT ![d[1]] = d[2]] : d \in Deviations}

\* A row that fails every check it can fail without an error.
WorstRow ==
    [customerID |-> Null, gender |-> Str(S_male), Partner |-> Str(S_Maybe),
     Dependents |-> Str(S_Maybe), PhoneService |-> Str(S_Maybe),
     InternetService |-> Str(S_Maybe), Contract |-> Str(S_Maybe),
     tenure |-> Num(-1), MonthlyCharges |-> Num(201),
     TotalCharges |-> Str(<<"-", "5">>), Churn |-> Str(S_Maybe)]

RowKinds == CoreRows \cup DeviantRows \cup {WorstRow}

SeqsUpTo(S, n) == UNION {[1..k -> S] : k \in 0..n}

\* total rows with distinct numeric customerIDs, the first v of which have
\* MonthlyCharges above TotalCharges
BulkData(v, total) ==
    [i \in 1..total |->
        [BaseRow EXCEPT !["customerID"] = Num(i),
                        !["MonthlyCharges"] = IF i <= v THEN Num(40) ELSE Num(20)]]

\* rows that differ in customerID only
IdData ==
    {[i \in 1..Len(ids) |-> [BaseRow EXCEPT !["customerID"] = ids[i]]] :
        ids \in SeqsUpTo({Str(<<"A">>), Str(<<"B">>), Str(<<"C">>), Null}, MaxIdRows)}

ColumnChoices ==
    {required_columns \ {c} : c \in required_columns}
        \cup {required_columns \ {"Contract", "tenure"}, {}}

Restrict(row, cols) == [c \in cols |-> row[c]]

Init ==
    /\ \/ /\ columns = required_columns
          /\ \/ df \in SeqsUpTo(RowKinds, MaxRows)
             \/ df \in IdData
             \/ \E v \in 0..MaxViolations : \E total \in (MaxRows + 1)..MaxTotal :
                   v <= total /\ df = BulkData(v, total)
       \/ /\ columns \in ColumnChoices
          /\ \E d \in SeqsUpTo(RowKinds, MaxRowsMissing) :
                df = [i \in 1..Len(d) |-> Restrict(d[i], columns)]
    /\ pc = "schema"
    /\ failures = <<>>
    /\ tc_numeric = <<>>
    /\ notice = NoNotice
    /\ is_valid = FALSE
    /\ returned = <<>>

(* ------------------------------ the checks ---------------------------- *)
Raise ==
    /\ pc' = "raised"
    /\ UNCHANGED <<failures, is_valid, returned>>

\* SchemaCheck returning early without recording the message
SchemaCheck_ReturnsEmpty ==
    /\ pc = "schema"
    /\ LET missing == required_columns \ columns IN
         IF missing # {}
         THEN /\ is_valid' = FALSE
              /\ returned' = failures
              /\ pc' = "done"
              /\ UNCHANGED failures
         ELSE /\ pc' = "key_nulls"
              /\ UNCHANGED <<failures, is_valid, returned>>
    /\ UNCHANGED <<columns, df, tc_numeric, notice>>

\* SchemaCheck recording the message but falling through to the next block
SchemaCheck_NoEarlyReturn ==
    /\ pc = "schema"
    /\ LET missing == required_columns \ columns IN
         failures' = IF missing # {}
                     THEN Append(failures,
                            [Msg("missing_columns", "", 0) EXCEPT !.cols = missing])
                     ELSE failures
    /\ pc' = "key_nulls"
    /\ UNCHANGED <<columns, df, tc_numeric, notice, is_valid, returned>>

\* lines 20-30: schema / required columns, with the early return
SchemaCheck ==
    /\ pc = "schema"
    /\ LET missing == required_columns \ columns IN
         IF missing # {}
         THEN LET fs == Append(failures,
                          [Msg("missing_columns", "", 0) EXCEPT !.cols = missing])
              IN /\ failures' = fs
                 /\ is_valid' = FALSE
                 /\ returned' = fs
                 /\ pc' = "done"
         ELSE /\ pc' = "key_nulls"
              /\ UNCHANGED <<failures, is_valid, returned>>
    /\ UNCHANGED <<columns, df, tc_numeric, notice>>

\* lines 33-37: the loop over key_not_null, from position k on
RECURSIVE NullLoop(_, _)
NullLoop(k, fs) ==
    IF k > Len(key_not_null) THEN fs
    ELSE LET col == key_not_null[k]
             nn == _non_null_count(col)
         IN NullLoop(k + 1,
                IF nn > 0 THEN Append(fs, Msg("key_null", col, nn)) ELSE fs)

KeyNullChecks ==
    /\ pc = "key_nulls"
    /\ IF KeyError({"customerID", "tenure", "MonthlyCharges"})
       THEN Raise
       ELSE /\ failures' = NullLoop(1, failures)
            /\ pc' = "value_sets"
            /\ UNCHANGED <<is_valid, returned>>
    /\ UNCHANGED <<columns, df, tc_numeric, notice>>

\* lines 41-44: check_in_set, as a function of the failure list so far
check_in_set(col, allowed, fs) ==
    LET bad == BadValues(col, allowed) IN
      IF SortRaises(bad) THEN [raised |-> TRUE, failures |-> fs]
      ELSE [raised |-> FALSE,
            failures |-> IF bad # {}
                         THEN Append(fs, [Msg("value_set", col, 0) EXCEPT !.vals = bad])
                         ELSE fs]

\* lines 46-51: the six calls in source order, from call k on
RECURSIVE ValueSetLoop(_, _)
ValueSetLoop(k, fs) ==
    IF k > Len(value_set_checks) THEN [raised |-> FALSE, failures |-> fs]
    ELSE LET r == check_in_set(value_set_checks[k].col,
                               value_set_checks[k].allowed, fs)
         IN IF r.raised THEN r ELSE ValueSetLoop(k + 1, r.failures)

ValueSetChecks ==
    /\ pc = "value_sets"
    /\ IF KeyError({"gender", "Partner", "Dependents", "PhoneService",
                    "Contract", "InternetService"})
       THEN Raise
       ELSE LET r == ValueSetLoop(1, failures) IN
              IF r.raised THEN Raise
              ELSE /\ failures' = r.failures
                   /\ pc' = "coerce"
                   /\ UNCHANGED <<is_valid, returned>>
    /\ UNCHANGED <<columns, df, tc_numeric, notice>>

\* lines 56-60: the masks, over a coerced column tc
non_numeric_mask(tc, i) == isna(tc[i]) /\ notna(df[i]["TotalCharges"])
ok_blank_mask(tc, i) == non_numeric_mask(tc, i) /\ EqNum(df[i]["tenure"], 0)
real_issues_mask_GeZero(tc, i) ==
    non_numeric_mask(tc, i) /\ (GtNum(df[i]["tenure"], 0) \/ EqNum(df[i]["tenure"], 0))
real_issues_mask(tc, i) == non_numeric_mask(tc, i) /\ GtNum(df[i]["tenure"], 0)

\* lines 56-67
TotalChargesCoercion ==
    /\ pc = "coerce"
    /\ IF KeyError({"TotalCharges", "tenure"})
       THEN Raise /\ UNCHANGED <<tc_numeric, notice>>
       ELSE LET tc == [i \in Rows |-> to_numeric(df[i]["TotalCharges"])]
                real == Count(LAMBDA i : real_issues_mask(tc, i))
                nonnum == Count(LAMBDA i : non_numeric_mask(tc, i))
            IN /\ tc_numeric' = tc
               /\ IF HasStr("tenure")
                  THEN Raise /\ UNCHANGED notice
                  ELSE /\ pc' = "non_negative"
                       /\ UNCHANGED <<is_valid, returned>>
                       /\ IF real > 0
                          THEN /\ failures' = Append(failures,
                                      Msg("tc_non_numeric", "TotalCharges", real))
                               /\ UNCHANGED notice
                          ELSE IF nonnum > 0
                          THEN /\ notice' = nonnum
                               /\ UNCHANGED failures
                          ELSE UNCHANGED <<failures, notice>>
    /\ UNCHANGED <<columns, df>>

AppendIf(c, fs, m) == IF c THEN Append(fs, m) ELSE fs

\* NonNegativity testing tenure with .all() in place of .any()
NonNegativity_TenureAll ==
    /\ pc = "non_negative"
    /\ IF \/ KeyError({"tenure", "MonthlyCharges"})
          \/ HasStr("tenure") \/ HasStr("MonthlyCharges")
       THEN Raise
       ELSE /\ failures' =
                 AppendIf(\E i \in Rows : LtNum(tc_numeric[i], 0),
                   AppendIf(\E i \in Rows : LtNum(df[i]["MonthlyCharges"], 0),
                     AppendIf(\A i \in Rows : LtNum(df[i]["tenure"], 0),
                              failures,
                              Msg("negative", "tenure", 0)),
                     Msg("negative", "MonthlyCharges", 0)),
                   Msg("negative", "TotalCharges", 0))
            /\ pc' = "bounds"
            /\ UNCHANGED <<is_valid, returned>>
    /\ UNCHANGED <<columns, df, tc_numeric, notice>>

\* lines 70-75
NonNegativity ==
    /\ pc = "non_negative"
    /\ IF \/ KeyError({"tenure", "MonthlyCharges"})
          \/ HasStr("tenure") \/ HasStr("MonthlyCharges")
       THEN Raise
       ELSE /\ failures' =
                 AppendIf(\E i \in Rows : LtNum(tc_numeric[i], 0),
                   AppendIf(\E i \in Rows : LtNum(df[i]["MonthlyCharges"], 0),
                     AppendIf(\E i \in Rows : LtNum(df[i]["tenure"], 0),
                              failures,
                              Msg("negative", "tenure", 0)),
                     Msg("negative", "MonthlyCharges", 0)),
                   Msg("negative", "TotalCharges", 0))
            /\ pc' = "bounds"
            /\ UNCHANGED <<is_valid, returned>>
    /\ UNCHANGED <<columns, df, tc_numeric, notice>>

\* lines 78-81
Bounds ==
    /\ pc = "bounds"
    /\ IF \/ KeyError({"tenure", "MonthlyCharges"})
          \/ HasStr("tenure") \/ HasStr("MonthlyCharges")
       THEN Raise
       ELSE /\ failures' =
                 AppendIf(\E i \in Rows : GtNum(df[i]["MonthlyCharges"], 200),
                   AppendIf(\E i \in Rows : GtNum(df[i]["tenure"], 120),
                            failures,
                            Msg("exceeds", "tenure", 120)),
                   Msg("exceeds", "MonthlyCharges", 200))
            /\ pc' = "numeric_nulls"
            /\ UNCHANGED <<is_valid, returned>>
    /\ UNCHANGED <<columns, df, tc_numeric, notice>>

\* lines 84-87
NumericNulls ==
    /\ pc = "numeric_nulls"
    /\ IF KeyError({"tenure", "MonthlyCharges"})
       THEN Raise
       ELSE /\ failures' =
                 AppendIf(\E i \in Rows : isna(df[i]["MonthlyCharges"]),
                   AppendIf(\E i \in Rows : isna(df[i]["tenure"]),
                            failures,
                            Msg("numeric_null", "tenure", _non_null_count("tenure"))),
                   Msg("numeric_null", "MonthlyCharges",
                       _non_null_count("MonthlyCharges")))
            /\ pc' = "consistency"
            /\ UNCHANGED <<is_valid, returned>>
    /\ UNCHANGED <<columns, df, tc_numeric, notice>>

\* line 91
comparable(i) == notna(tc_numeric[i]) /\ notna(df[i]["MonthlyCharges"])

\* line 93: one row of tc_numeric[comparable] < df.loc[comparable, "MonthlyCharges"]
violates(i) == comparable(i) /\ tc_numeric[i].n < df[i]["MonthlyCharges"].n

frac_ok_below_threshold_Le(violations, total) ==
    100 * (total - violations) <= 95 * total

\* lines 95-96: frac_ok = 1.0 - violations/total; frac_ok < 0.95, in exact
\* arithmetic (multiplied through by 100 * total, total > 0).  The double
\* arithmetic of the source agrees with it for every total up to 3000.
frac_ok_below_threshold(violations, total) ==
    100 * (total - violations) < 95 * total

\* Consistency without the else branch for an empty comparison
Consistency_SkipsEmpty ==
    /\ pc = "consistency"
    /\ IF KeyError({"MonthlyCharges"}) \/ HasStr("MonthlyCharges")
       THEN Raise
       ELSE LET total == Count(comparable)
                violations == Count(violates)
            IN /\ failures' =
                    AppendIf(total > 0 /\ 100 * (total - violations) < 95 * total,
                             failures,
                             [Msg("consistency", "TotalCharges", violations)
                                 EXCEPT !.total = total])
               /\ pc' = "churn"
               /\ UNCHANGED <<is_valid, returned>>
    /\ UNCHANGED <<columns, df, tc_numeric, notice>>

\* lines 91-103
Consistency ==
    /\ pc = "consistency"
    /\ IF KeyError({"MonthlyCharges"}) \/ HasStr("MonthlyCharges")
       THEN Raise
       ELSE LET total == Count(comparable)
                violations == Count(violates)
            IN /\ IF total > 0
                  THEN failures' =
                         AppendIf(frac_ok_below_threshold(violations, total),
                                  failures,
                                  [Msg("consistency", "TotalCharges", violations)
                                      EXCEPT !.total = total])
                  ELSE failures' = Append(failures,
                                          Msg("no_comparable", "TotalCharges", 0))
               /\ pc' = "churn"
               /\ UNCHANGED <<is_valid, returned>>
    /\ UNCHANGED <<columns, df, tc_numeric, notice>>

\* ChurnCheck inserting its message at the head of the list
ChurnCheck_Prepends ==
    /\ pc = "churn"
    /\ IF KeyError({"Churn"})
       THEN Raise
       ELSE LET extras == BadValues("Churn", {S_Yes, S_No}) IN
              IF SortRaises(extras) THEN Raise
              ELSE /\ failures' =
                        IF extras # {}
                        THEN <<[Msg("churn", "Churn", 0) EXCEPT !.vals = extras]>>
                                 \o failures
                        ELSE failures
                   /\ pc' = "unique"
                   /\ UNCHANGED <<is_valid, returned>>
    /\ UNCHANGED <<columns, df, tc_numeric, notice>>

\* lines 106-108
ChurnCheck ==
    /\ pc = "churn"
    /\ IF KeyError({"Churn"})
       THEN Raise
       ELSE LET extras == BadValues("Churn", churn_allowed) IN
              IF SortRaises(extras) THEN Raise
              ELSE /\ failures' = AppendIf(extras # {}, failures,
                                     [Msg("churn", "Churn", 0) EXCEPT !.vals = extras])
                   /\ pc' = "unique"
                   /\ UNCHANGED <<is_valid, returned>>
    /\ UNCHANGED <<columns, df, tc_numeric, notice>>

\* duplicated(keep=False): every occurrence of a repeated value
duplicated_KeepFalse(i) ==
    \E j \in Rows \ {i} : df[j]["customerID"] = df[i]["customerID"]

\* line 111: df["customerID"].duplicated().sum(): the rows whose value
\* already occurred in an earlier row
duplicated(i) == \E j \in 1..(i - 1) : df[j]["customerID"] = df[i]["customerID"]

\* lines 111-113
Uniqueness ==
    /\ pc = "unique"
    /\ IF KeyError({"customerID"})
       THEN Raise
       ELSE /\ LET dupes == Count(duplicated) IN
                 failures' = AppendIf(dupes > 0, failures,
                                      Msg("duplicate_id", "customerID", dupes))
            /\ pc' = "return"
            /\ UNCHANGED <<is_valid, returned>>
    /\ UNCHANGED <<columns, df, tc_numeric, notice>>

\* lines 115-122
Return ==
    /\ pc = "return"
    /\ IF failures = <<>>
       THEN is_valid' = TRUE /\ returned' = <<>>
       ELSE is_valid' = FALSE /\ returned' = failures
    /\ pc' = "done"
    /\ UNCHANGED <<columns, df, failures, tc_numeric, notice>>

Next ==
    \/ SchemaCheck
    \/ KeyNullChecks
    \/ ValueSetChecks
    \/ TotalChargesCoercion
    \/ NonNegativity
    \/ Bounds
    \/ NumericNulls
    \/ Consistency
    \/ ChurnCheck
    \/ Uniqueness
    \/ Return

Spec == Init /\ [][Next]_vars

(* ------------------------------ properties ---------------------------- *)
AllColumns == columns = required_columns

\* the rows of the data set, classified from the cells alone
NonNumericTC(i) ==
    notna(df[i]["TotalCharges"]) /\ isna(to_numeric(df[i]["TotalCharges"]))
RealIssueRows == {i \in Rows : NonNumericTC(i) /\ GtNum(df[i]["tenure"], 0)}
BlankAtZeroRows == {i \in Rows : NonNumericTC(i) /\ EqNum(df[i]["tenure"], 0)}
ComparableRows ==
    {i \in Rows : notna(to_numeric(df[i]["TotalCharges"]))
                    /\ notna(df[i]["MonthlyCharges"])}
ViolatingRows ==
    {i \in ComparableRows :
        to_numeric(df[i]["TotalCharges"]).n < df[i]["MonthlyCharges"].n}
DistinctIds == {df[i]["customerID"] : i \in Rows}

Of(check) == {k \in 1..Len(failures) : failures[k].check = check}

PastCoercion ==
    pc \in {"non_negative", "bounds", "numeric_nulls", "consistency", "churn",
            "unique", "return"}
PastConsistency == pc \in {"churn", "unique", "return"}
PastUniqueness == pc = "return"

\* C1: on every return path (early schema exit, pass, fail) the returned
\* verdict is true exactly when the returned failure list is empty.
C1_VerdictIffNoFailures ==
    pc = "done" => (is_valid <=> returned = <<>>)

C1_Witness ==
    pc = "done" /\ is_valid /\ returned = <<>> /\ Len(df) > 0

\* C2: a data set missing a required column returns false with exactly the
\* missing-columns failure, and no later check is evaluated.
C2_MissingColumnsEarlyExit ==
    ~AllColumns =>
        /\ pc \in {"schema", "done"}
        /\ tc_numeric = <<>> /\ notice = NoNotice
        /\ pc = "done" =>
              /\ ~is_valid
              /\ Len(returned) = 1
              /\ returned[1].check = "missing_columns"
              /\ returned[1].cols = required_columns \ columns

C2_Witness ==
    /\ pc = "done"
    /\ columns = required_columns \ {"Contract"}
    /\ Len(df) = 1 /\ df[1]["tenure"] = Num(-1)
    /\ Len(returned) = 1

\* C3: when the verdict is true, every row whose TotalCharges is non-null
\* and non-numeric has tenure exactly 0.
C3_TenureZeroException ==
    (pc = "done" /\ is_valid) =>
        \A i \in Rows : NonNumericTC(i) => df[i]["tenure"] = Num(0)

C3_Witness ==
    pc = "done" /\ is_valid /\ \E i \in Rows : NonNumericTC(i)

\* C4: the coercion step appends its failure iff some row has a non-null
\* non-numeric TotalCharges with tenure > 0, and the count is the number of
\* such rows; rows with tenure == 0 never count.
C4_CoercionFailure ==
    PastCoercion =>
        /\ (Of("tc_non_numeric") # {}) <=> (RealIssueRows # {})
        /\ Cardinality(Of("tc_non_numeric")) <= 1
        /\ \A k \in Of("tc_non_numeric") :
              failures[k].count = Cardinality(RealIssueRows)

C4_Witness ==
    /\ pc = "non_negative"
    /\ BlankAtZeroRows # {}
    /\ \E k \in Of("tc_non_numeric") : failures[k].count = 1

\* C5: when the coercion step only emits the notice, every non-numeric
\* TotalCharges is on a row with tenure == 0 and the notice counts the
\* non-numeric rows with tenure == 0.
C5_NoticeOnlyTenureZero ==
    notice # NoNotice =>
        /\ \A i \in Rows : NonNumericTC(i) => EqNum(df[i]["tenure"], 0)
        /\ notice = Cardinality(BlankAtZeroRows)

\* C6: a data set that has all required columns never makes the call raise.
C6_NeverRaises ==
    AllColumns => pc # "raised"

\* C7: over the comparable rows (total > 0) the consistency failure is
\* appended iff 20 * violations > total, and it reports both counts.
C7_ConsistencyThreshold ==
    (PastConsistency /\ ComparableRows # {}) =>
        /\ Of("no_comparable") = {}
        /\ (Of("consistency") # {}) <=>
              (20 * Cardinality(ViolatingRows) > Cardinality(ComparableRows))
        /\ \A k \in Of("consistency") :
              /\ failures[k].count = Cardinality(ViolatingRows)
              /\ failures[k].total = Cardinality(ComparableRows)

C7_Witness ==
    /\ pc = "churn"
    /\ Cardinality(ViolatingRows) > 0
    /\ 20 * Cardinality(ViolatingRows) = Cardinality(ComparableRows)
    /\ Of("consistency") = {}

\* C8: a data set with zero rows and all required columns returns false
\* with the single not-enough-rows failure.
C8_EmptyDataSet ==
    (pc = "done" /\ AllColumns /\ Len(df) = 0) =>
        /\ ~is_valid
        /\ returned = <<Msg("no_comparable", "TotalCharges", 0)>>

C8_Witness ==
    pc = "done" /\ AllColumns /\ Len(df) = 0 /\ Len(returned) = 1

\* position of a failure in the fixed step order
Rank(f) ==
    CASE f.check = "missing_columns" -> 0
      [] f.check = "key_null" ->
            (CASE f.col = "customerID" -> 1 [] f.col = "tenure" -> 2
               [] f.col = "MonthlyCharges" -> 3)
      [] f.check = "value_set" ->
            (CASE f.col = "gender" -> 4 [] f.col = "Partner" -> 5
               [] f.col = "Dependents" -> 6 [] f.col = "PhoneService" -> 7
               [] f.col = "Contract" -> 8 [] f.col = "InternetService" -> 9)
      [] f.check = "tc_non_numeric" -> 10
      [] f.check = "negative" ->
            (CASE f.col = "tenure" -> 11 [] f.col = "MonthlyCharges" -> 12
               [] f.col = "TotalCharges" -> 13)
      [] f.check = "exceeds" ->
            (CASE f.col = "tenure" -> 14 [] f.col = "MonthlyCharges" -> 15)
      [] f.check = "numeric_null" ->
            (CASE f.col = "tenure" -> 16 [] f.col = "MonthlyCharges" -> 17)
      [] f.check \in {"consistency", "no_comparable"} -> 18
      [] f.check = "churn" -> 19
      [] f.check = "duplicate_id" -> 20

\* C9: the returned failure list is ordered by the fixed step order: of any
\* two failures, the one of the earlier step comes first.
C9_FailuresInStepOrder ==
    pc = "done" =>
        \A j, k \in 1..Len(returned) :
            j < k => Rank(returned[j]) < Rank(returned[k])

C9_Witness ==
    /\ pc = "done"
    /\ Len(returned) >= 12
    /\ \E k \in 1..Len(returned) : returned[k].check = "churn"

\* C10: the duplicate count is the number of rows minus the number of
\* distinct customerID values, and the uniqueness failure is appended iff
\* that count is positive.
C10_DuplicateCount ==
    PastUniqueness =>
        /\ (Of("duplicate_id") # {}) <=> (Len(df) - Cardinality(DistinctIds) > 0)
        /\ \A k \in Of("duplicate_id") :
              failures[k].count = Len(df) - Cardinality(DistinctIds)

C10_Witness ==
    /\ pc = "return"
    /\ Len(df) = 5
    /\ [i \in 1..5 |-> df[i]["customerID"]] =
          <<Str(<<"A">>), Str(<<"B">>), Str(<<"A">>), Str(<<"C">>), Str(<<"A">>)>>
    /\ \E k \in Of("duplicate_id") : failures[k].count = 2

====
